---- MODULE Spec2Model ----
(***************************************************************************)
(* A model of palladium's configuration engine (palladium/config.py):      *)
(* process_config with its three directive handlers and the tree walker,   *)
(* and the process-wide configuration singleton behind get_config and      *)
(* initialize_config.                                                      *)
(*                                                                         *)
(* Python objects live in a heap (a sequence of objects, an object's       *)
(* identity is its index), so that `is`, aliasing between a source and the *)
(* accumulated configuration, in-place mutation and deepcopy are all       *)
(* visible.  A string is a sequence of tokens; "." "," ":" "/" " " are     *)
(* tokens of their own, so that split, rsplit and strip do real work.      *)
(***************************************************************************)
EXTENDS Integers, Sequences, FiniteSets, TLC

\* ------------------------------------------------------------------------
\* Bounds of the model
\* ------------------------------------------------------------------------
MaxSources == 2
MaxCalls == 2

\* ------------------------------------------------------------------------
\* Strings and values
\* ------------------------------------------------------------------------
KeyFactory == <<"__factory__">>
KeyCopy == <<"__copy__">>
KeyPython == <<"__python__">>
KeyLogging == <<"logging">>
KeyRoot == <<"root">>

VInt(n) == [t |-> "int", n |-> n, s |-> <<>>]
VStr(s) == [t |-> "str", n |-> 0, s |-> s]
VRef(i) == [t |-> "ref", n |-> i, s |-> <<>>]
VNone == [t |-> "none", n |-> 0, s |-> <<>>]

Item(k, v) == [k |-> k, v |-> v]

\* str.split(sep): the segments between the occurrences of sep
RECURSIVE SplitFrom(_, _, _, _, _)
SplitFrom(s, sep, i, cur, acc) ==
    IF i > Len(s) THEN Append(acc, cur)
    ELSE IF s[i] = sep THEN SplitFrom(s, sep, i + 1, <<>>, Append(acc, cur))
    ELSE SplitFrom(s, sep, i + 1, Append(cur, s[i]), acc)

Split(s, sep) == SplitFrom(s, sep, 1, <<>>, <<>>)

Contains(s, tok) == \E i \in 1..Len(s) : s[i] = tok

\* the position of the last occurrence of tok in s, 0 when there is none
LastIndex(s, tok) ==
    IF Contains(s, tok)
    THEN CHOOSE i \in 1..Len(s) :
            s[i] = tok /\ \A j \in (i + 1)..Len(s) : s[j] # tok
    ELSE 0

\* str.rsplit(sep, 1)
RSplit1(s, sep) ==
    LET p == LastIndex(s, sep)
    IN IF p = 0 THEN <<s>>
       ELSE <<SubSeq(s, 1, p - 1), SubSeq(s, p + 1, Len(s))>>

\* str.strip(): leading and trailing blanks removed
RECURSIVE Strip(_)
Strip(s) ==
    IF s = <<>> THEN s
    ELSE IF Head(s) = " " THEN Strip(Tail(s))
    ELSE IF s[Len(s)] = " " THEN Strip(SubSeq(s, 1, Len(s) - 1))
    ELSE s

\* str(i) for a list index
Digits == <<"0", "1", "2", "3", "4", "5", "6", "7", "8", "9">>

RECURSIVE IntToStr(_)
IntToStr(i) ==
    IF i < 10 THEN <<Digits[i + 1]>>
    ELSE Append(IntToStr(i \div 10), Digits[(i % 10) + 1])

\* ------------------------------------------------------------------------
\* Dictionaries: insertion-ordered lists of items
\* ------------------------------------------------------------------------
Has(items, k) == \E i \in 1..Len(items) : items[i].k = k

IndexOf(items, k) == CHOOSE i \in 1..Len(items) : items[i].k = k

Get(items, k) == items[IndexOf(items, k)].v

\* d[k] = v : an existing key keeps its place, a new key goes last
Set(items, k, v) ==
    IF Has(items, k)
    THEN [items EXCEPT ![IndexOf(items, k)] = Item(k, v)]
    ELSE Append(items, Item(k, v))

\* del d[k] / d.pop(k)
Del(items, k) ==
    LET p == IndexOf(items, k)
    IN SubSeq(items, 1, p - 1) \o SubSeq(items, p + 1, Len(items))

\* an update that keeps the value of a key it already has
RECURSIVE Update_keep(_, _)
Update_keep(items, other) ==
    IF other = <<>> THEN items
    ELSE Update_keep(IF Has(items, Head(other).k) THEN items
                     ELSE Append(items, Head(other)),
                     Tail(other))

\* d.update(other)
RECURSIVE Update(_, _)
Update(items, other) ==
    IF other = <<>> THEN items
    ELSE Update(Set(items, Head(other).k, Head(other).v), Tail(other))

Keys(items) == {items[i].k : i \in 1..Len(items)}

\* ------------------------------------------------------------------------
\* The heap
\* ------------------------------------------------------------------------
Obj(kind, items) ==
    [kind |-> kind, items |-> items, cls |-> <<>>, tag |-> VNone,
     inits |-> <<>>]

IsKind(h, v, kind) == v.t = "ref" /\ h[v.n].kind = kind
IsDict(h, v) == IsKind(h, v, "dict")
IsList(h, v) == IsKind(h, v, "list")

\* a new object: the heap grows by one, the reference is its index
New(h, o) == [h |-> Append(h, o), v |-> VRef(Len(h) + 1)]

\* Literals (what a source file evaluates to, what a caller passes)
LInt(n) == [lk |-> "int", n |-> n, s |-> <<>>, items |-> <<>>]
LStr(s) == [lk |-> "str", n |-> 0, s |-> s, items |-> <<>>]
LDict(items) == [lk |-> "dict", n |-> 0, s |-> <<>>, items |-> items]
LList(elems) ==
    [lk |-> "list", n |-> 0, s |-> <<>>,
     items |-> [i \in 1..Len(elems) |-> Item(<<>>, elems[i])]]

\* a reference moved by off places; an object with its references moved
Relocate(v, off) == IF v.t = "ref" THEN VRef(v.n + off) ELSE v

RelocateAll(objs, off) ==
    [i \in 1..Len(objs) |->
        [objs[i] EXCEPT !.items =
            [j \in 1..Len(@) |-> Item(@[j].k, Relocate(@[j].v, off))]]]

\* the objects of the first i of a list of fragments, laid end to end
RECURSIVE SizeUpTo(_, _)
SizeUpTo(frags, i) ==
    IF i = 0 THEN 0 ELSE SizeUpTo(frags, i - 1) + Len(frags[i].objs)

RECURSIVE Concat(_, _)
Concat(frags, i) ==
    IF i = 0 THEN <<>>
    ELSE Concat(frags, i - 1)
            \o RelocateAll(frags[i].objs, SizeUpTo(frags, i - 1))

\* evaluating a literal builds its objects, children first: the fragment
\* of heap it makes, numbered from 1, and the value of the literal
RECURSIVE Fragment(_)
Fragment(lit) ==
    IF lit.lk = "int" THEN [objs |-> <<>>, v |-> VInt(lit.n)]
    ELSE IF lit.lk = "str" THEN [objs |-> <<>>, v |-> VStr(lit.s)]
    ELSE LET frags == [i \in 1..Len(lit.items) |-> Fragment(lit.items[i].v)]
             below == Concat(frags, Len(frags))
             items == [i \in 1..Len(frags) |->
                          Item(lit.items[i].k,
                               Relocate(frags[i].v, SizeUpTo(frags, i - 1)))]
         IN [objs |-> Append(below, Obj(lit.lk, items)),
             v |-> VRef(Len(below) + 1)]

Alloc(h, lit) ==
    LET f == Fragment(lit)
    IN [h |-> h \o RelocateAll(f.objs, Len(h)), v |-> Relocate(f.v, Len(h))]

\* the arguments of a call: each literal of a list evaluated in turn
RECURSIVE AllocAll(_, _, _, _)
AllocAll(h, lits, i, acc) ==
    IF i > Len(lits) THEN [h |-> h, vs |-> acc]
    ELSE LET r == Alloc(h, lits[i])
         IN AllocAll(r.h, lits, i + 1, Append(acc, r.v))

\* the objects reachable from a set of objects
Children(h, i) ==
    {h[i].items[j].v.n :
        j \in {k \in 1..Len(h[i].items) : h[i].items[k].v.t = "ref"}}

RECURSIVE Reachable(_, _)
Reachable(h, S) ==
    LET T == S \cup UNION {Children(h, i) : i \in S}
    IN IF T = S THEN S ELSE Reachable(h, T)

\* a copy that is no copy: the value itself is handed back
deepcopy_alias(h, v) == [h |-> h, v |-> v]

\* copy.deepcopy: every object reachable from v is built anew, once (the
\* memo), and the copies refer to each other as the originals do
deepcopy(h, v) ==
    IF v.t # "ref" THEN [h |-> h, v |-> v]
    ELSE LET old == Reachable(h, {v.n})
             Rank(i) == Cardinality({j \in old : j <= i})
             Moved(w) == IF w.t = "ref" THEN VRef(Len(h) + Rank(w.n)) ELSE w
             copies == [r \in 1..Cardinality(old) |->
                          LET o == h[CHOOSE i \in old : Rank(i) = r]
                          IN [o EXCEPT !.items =
                                [j \in 1..Len(@) |->
                                    Item(@[j].k, Moved(@[j].v))]]]
         IN [h |-> h \o copies, v |-> Moved(v)]

\* ------------------------------------------------------------------------
\* Outcomes of a call: st is "ok" or the name of the exception raised
\* ------------------------------------------------------------------------
Ok(h, v) == [st |-> "ok", h |-> h, v |-> v, arg |-> <<>>]
Raise(h, type, arg) == [st |-> type, h |-> h, v |-> VNone, arg |-> arg]

\* ------------------------------------------------------------------------
\* util.resolve_dotted_name and the importable world it looks names up in
\* ------------------------------------------------------------------------
ModP == <<"p", ".", "m">>
ModBuiltins == <<"builtins">>

\* import_module: the modules that exist, each with its namespace object
Modules == {<<ModP, "p.m">>, <<ModBuiltins, "builtins">>}

\* getattr: <<owner, attribute name, the attribute>>
Attributes ==
    {<<"p.m", <<"F">>, "F">>, <<"p.m", <<"G">>, "G">>,
     <<"p.m", <<"E">>, "E">>, <<"p.m", <<"ns">>, "ns">>,
     <<"p.m", <<"H">>, "H">>, <<"p.m", <<"B">>, "B">>,
     <<"ns", <<"F">>, "F">>, <<"builtins", <<"dict">>, "dict">>}

HasAttr(owner, name) == \E a \in Attributes : a[1] = owner /\ a[2] = name
GetAttr(owner, name) ==
    (CHOOSE a \in Attributes : a[1] = owner /\ a[2] = name)[3]

RECURSIVE getattr_chain(_, _, _)
getattr_chain(owner, names, i) ==
    IF i > Len(names) THEN [st |-> "ok", attr |-> owner]
    ELSE IF HasAttr(owner, names[i])
    THEN getattr_chain(GetAttr(owner, names[i]), names, i + 1)
    ELSE [st |-> "AttributeError", attr |-> owner]

\* a resolve_dotted_name that splits at the first dot: split('.', 1)
resolve_dotted_name_firstdot(dotted_name) ==
    LET dot == CHOOSE i \in 1..Len(dotted_name) :
                  /\ dotted_name[i] = "."
                  /\ \A j \in 1..(i - 1) : dotted_name[j] # "."
        parts == IF Contains(dotted_name, ":")
                 THEN Split(dotted_name, ":")
                 ELSE IF Contains(dotted_name, ".")
                 THEN <<SubSeq(dotted_name, 1, dot - 1),
                        SubSeq(dotted_name, dot + 1, Len(dotted_name))>>
                 ELSE <<dotted_name>>
    IN IF Len(parts) # 2 THEN [st |-> "ValueError", attr |-> ""]
       ELSE IF \E m \in Modules : m[1] = parts[1]
       THEN getattr_chain((CHOOSE m \in Modules : m[1] = parts[1])[2],
                          Split(parts[2], "."), 1)
       ELSE [st |-> "ImportError", attr |-> ""]

resolve_dotted_name(dotted_name) ==
    LET parts == IF Contains(dotted_name, ":")
                 THEN Split(dotted_name, ":")
                 ELSE RSplit1(dotted_name, ".")
    IN IF Len(parts) # 2 THEN [st |-> "ValueError", attr |-> ""]
       ELSE IF \E m \in Modules : m[1] = parts[1]
       THEN getattr_chain((CHOOSE m \in Modules : m[1] = parts[1])[2],
                          Split(parts[2], "."), 1)
       ELSE [st |-> "ImportError", attr |-> ""]

\* ------------------------------------------------------------------------
\* CopyHandler
\* ------------------------------------------------------------------------
\* the inner loop of _resolve: value = value[part] for every part
RECURSIVE resolve_parts(_, _, _, _)
resolve_parts(h, value, parts, j) ==
    IF j > Len(parts) THEN [st |-> "ok", v |-> value]
    ELSE IF ~IsDict(h, value) THEN [st |-> "TypeError", v |-> VNone]
    ELSE IF Has(h[value.n].items, parts[j])
    THEN resolve_parts(h, Get(h[value.n].items, parts[j]), parts, j + 1)
    ELSE [st |-> "KeyError", v |-> VNone]

\* a _resolve that gives None where no configuration has the path
RECURSIVE resolve_from_none(_, _, _, _)
resolve_from_none(h, configs, i, parts) ==
    IF i = 0 THEN [st |-> "ok", v |-> VNone]
    ELSE LET r == resolve_parts(h, configs[i], parts, 1)
         IN IF r.st = "KeyError"
            THEN resolve_from_none(h, configs, i - 1, parts)
            ELSE r

\* a _resolve that searches the oldest configuration first
RECURSIVE resolve_from_oldest(_, _, _, _)
resolve_from_oldest(h, configs, i, parts) ==
    IF i = 0 THEN [st |-> "KeyError", v |-> VNone]
    ELSE LET r == resolve_parts(h, configs[Len(configs) - i + 1], parts, 1)
         IN IF r.st = "KeyError"
            THEN resolve_from_oldest(h, configs, i - 1, parts)
            ELSE r

\* the outer loop of _resolve: for config in configs[::-1]
RECURSIVE resolve_from(_, _, _, _)
resolve_from(h, configs, i, parts) ==
    IF i = 0 THEN [st |-> "KeyError", v |-> VNone]
    ELSE LET r == resolve_parts(h, configs[i], parts, 1)
         IN IF r.st = "KeyError"
            THEN resolve_from(h, configs, i - 1, parts)
            ELSE r

CopyHandler_resolve(h, configs, dotted_path) ==
    resolve_from(h, configs, Len(configs), Split(dotted_path, "."))

\* a copy handler without the self-reference check of lines 83-90
CopyHandler_call_noself(h, configs, p) ==
    LET props == h[p].items
        dotted_path == Get(props, KeyCopy)
    IN IF dotted_path.t # "str"
       THEN Raise(h, "AttributeError", <<>>)
       ELSE
       LET r2 == CopyHandler_resolve(h, configs, dotted_path.s)
       IN IF r2.st # "ok" THEN Raise(h, r2.st, dotted_path.s)
          ELSE
          LET c == deepcopy(h, r2.v)
          IN IF Len(props) > 1
             THEN IF IsDict(c.h, c.v)
                  THEN LET value == c.h[c.v.n].items
                           recursive_copy == Has(value, KeyCopy)
                           updated == Update(value, props)
                           final == IF recursive_copy THEN updated
                                    ELSE Del(updated, KeyCopy)
                       IN Ok([c.h EXCEPT ![c.v.n].items = final], c.v)
                  ELSE IF c.v.t \in {"int", "none"}
                  THEN Raise(c.h, "TypeError", <<>>)
                  ELSE Raise(c.h, "AttributeError", <<>>)
             ELSE Ok(c.h, c.v)

\* a copy handler whose update lets the target's values stand
CopyHandler_call_targetwins(h, configs, p) ==
    LET props == h[p].items
        dotted_path == Get(props, KeyCopy)
    IN IF dotted_path.t # "str"
       THEN Raise(h, "AttributeError", <<>>)
       ELSE
       LET r1 == CopyHandler_resolve(
                    h, SubSeq(configs, Len(configs), Len(configs)),
                    dotted_path.s)
           self_reference == r1.st = "ok" /\ r1.v = VRef(p)
           r2 == IF self_reference
                 THEN CopyHandler_resolve(
                        h, SubSeq(configs, 1, Len(configs) - 1),
                        dotted_path.s)
                 ELSE CopyHandler_resolve(h, configs, dotted_path.s)
       IN IF r1.st = "TypeError" THEN Raise(h, "TypeError", <<>>)
          ELSE IF r2.st # "ok" THEN Raise(h, r2.st, dotted_path.s)
          ELSE
          LET c == deepcopy(h, r2.v)
          IN IF Len(props) > 1
             THEN IF IsDict(c.h, c.v)
                  THEN LET value == c.h[c.v.n].items
                           recursive_copy == Has(value, KeyCopy)
                           updated == Update_keep(value, props)
                           final == IF recursive_copy THEN updated
                                    ELSE Del(updated, KeyCopy)
                       IN Ok([c.h EXCEPT ![c.v.n].items = final], c.v)
                  ELSE IF c.v.t \in {"int", "none"}
                  THEN Raise(c.h, "TypeError", <<>>)
                  ELSE Raise(c.h, "AttributeError", <<>>)
             ELSE Ok(c.h, c.v)

CopyHandler_call(h, configs, p) ==
    LET props == h[p].items
        dotted_path == Get(props, KeyCopy)
    IN IF dotted_path.t # "str"
       THEN Raise(h, "AttributeError", <<>>)
       ELSE
       LET r1 == CopyHandler_resolve(
                    h, SubSeq(configs, Len(configs), Len(configs)),
                    dotted_path.s)
           self_reference == r1.st = "ok" /\ r1.v = VRef(p)
           r2 == IF self_reference
                 THEN CopyHandler_resolve(
                        h, SubSeq(configs, 1, Len(configs) - 1),
                        dotted_path.s)
                 ELSE CopyHandler_resolve(h, configs, dotted_path.s)
       IN IF r1.st = "TypeError" THEN Raise(h, "TypeError", <<>>)
          ELSE IF r2.st # "ok" THEN Raise(h, r2.st, dotted_path.s)
          ELSE
          LET c == deepcopy(h, r2.v)
          IN IF Len(props) > 1
             THEN IF IsDict(c.h, c.v)
                  THEN LET value == c.h[c.v.n].items
                           recursive_copy == Has(value, KeyCopy)
                           updated == Update(value, props)
                           final == IF recursive_copy THEN updated
                                    ELSE Del(updated, KeyCopy)
                       IN Ok([c.h EXCEPT ![c.v.n].items = final], c.v)
                  ELSE IF c.v.t \in {"int", "none"}
                  THEN Raise(c.h, "TypeError", <<>>)
                  ELSE Raise(c.h, "AttributeError", <<>>)
             ELSE Ok(c.h, c.v)

\* ------------------------------------------------------------------------
\* PythonHandler
\* ------------------------------------------------------------------------
FactoryF == <<"p", ".", "m", ".", "F">>
FactoryG == <<"p", ".", "m", ":", "G">>
KeyOther == <<"other">>
KeyNew == <<"new">>
KeyA == <<"a">>

\* one statement of a fragment, run with C bound to the configuration
exec_statement(h, C, stmt) ==
    LET cfg == h[C.n].items
    IN IF stmt = "C['other'] = 13"
       THEN Ok([h EXCEPT ![C.n].items = Set(cfg, KeyOther, VInt(13))], VNone)
       ELSE IF stmt = "C['new'] = {'__factory__': 'p.m.F'}"
       THEN LET d == New(h, Obj("dict", <<Item(KeyFactory, VStr(FactoryF))>>))
            IN Ok([d.h EXCEPT ![C.n].items = Set(cfg, KeyNew, d.v)], VNone)
       ELSE IF stmt = "C['a']['__factory__'] = 'p.m:G'"
       THEN IF ~Has(cfg, KeyA) THEN Raise(h, "KeyError", KeyA)
            ELSE IF ~IsDict(h, Get(cfg, KeyA))
            THEN Raise(h, "TypeError", <<>>)
            ELSE LET a == Get(cfg, KeyA).n
                 IN Ok([h EXCEPT ![a].items =
                           Set(h[a].items, KeyFactory, VStr(FactoryG))],
                       VNone)
       ELSE Raise(h, "SyntaxError", <<>>)

RECURSIVE exec(_, _, _, _)
exec(h, C, statements, i) ==
    IF i > Len(statements) THEN Ok(h, VNone)
    ELSE LET r == exec_statement(h, C, statements[i])
         IN IF r.st = "ok" THEN exec(r.h, C, statements, i + 1) ELSE r

PythonHandler_call(h, config, p) ==
    LET statements == Get(h[p].items, KeyPython)
        h1 == [h EXCEPT ![p].items = Del(h[p].items, KeyPython)]
    IN IF statements.t # "str" THEN Raise(h1, "TypeError", <<>>)
       ELSE LET r == exec(h1, config, statements.s, 1)
            IN IF r.st = "ok" THEN Ok(r.h, VRef(p)) ELSE r

\* ------------------------------------------------------------------------
\* ComponentHandler
\* ------------------------------------------------------------------------
\* the classes the factories name: does the instance take attributes,
\* does it define initialize_component, does that hook raise
TakesAttributes(cls) == cls \in {"F", "G", "H", "B"}
HasHook(cls) == cls \in {"F", "H"}
HookRaises(cls) == cls = "H"

KeyCfg == <<"cfg">>

\* factory(**specification); the constructor of B takes no arguments and
\* does self.cfg = get_config().copy(): it runs on the thread that owns
\* the reentrant lock, inside the process_config call of line 227, so the
\* flag of line 214 is set and the nested call returns _config as it is
factory_call(h, cls, specification) ==
    IF cls = "E" THEN Raise(h, "RuntimeError", <<>>)
    ELSE IF cls = "B"
    THEN IF specification # <<>> THEN Raise(h, "TypeError", <<>>)
         ELSE LET cfg == New(h, Obj("dict", h[1].items))
                  r == New(cfg.h, [Obj("obj", <<Item(KeyCfg, cfg.v)>>)
                                      EXCEPT !.cls = <<"B">>])
              IN Ok(r.h, r.v)
    ELSE IF cls = "dict"
    THEN LET r == New(h, Obj("dict", specification)) IN Ok(r.h, r.v)
    ELSE IF cls \in {"F", "G", "H"}
    THEN LET r == New(h, [Obj("obj", specification) EXCEPT !.cls = <<cls>>])
         IN Ok(r.h, r.v)
    ELSE Raise(h, "TypeError", <<>>)

ComponentHandler_call(h, name, p) ==
    LET specification == Del(h[p].items, KeyFactory)
        factory_dotted_name == Get(h[p].items, KeyFactory)
    IN IF factory_dotted_name.t # "str"
       THEN Raise(h, "AttributeError", <<>>)
       ELSE
       LET factory == resolve_dotted_name(factory_dotted_name.s)
       IN IF factory.st # "ok"
          THEN Raise(h, factory.st, factory_dotted_name.s)
          ELSE
          LET component == factory_call(h, factory.attr, specification)
          IN IF component.st # "ok" THEN component
             ELSE IF TakesAttributes(factory.attr)
             THEN Ok([component.h EXCEPT ![component.v.n].tag = VStr(name)],
                     component.v)
             ELSE component

\* ------------------------------------------------------------------------
\* State
\* ------------------------------------------------------------------------
VARIABLES
    heap,          \* the objects; heap[1] is the module's _config
    pc,            \* process_config: the phase it is in
    at,            \* _run_config_handlers: "enter", "walk", "finish" or "-"
    configs,       \* process_config: its *configs argument
    idx,           \* process_config: index of the source of the for loop
    config_final,  \* process_config: the accumulated configuration
    config_org,    \* process_config: the copy taken before the merge
    handler,       \* _run_config_handlers: the handler of the phase
    stack,         \* _run_config_handlers_recursive: its activations
    fin,           \* ComponentHandler.finish: index into components
    logcfg,        \* _initialize_logging: what logging was configured with
    result,        \* process_config: the value returned
    err,           \* the exception that ended process_config
    trace,         \* history: the phases started, in order
    calls,         \* history: the handler, factory and hook calls, in order
    input,         \* history: the literals the sources were built from
    initialized,   \* _config.initialized
    lock,          \* _get_config_lock: owner thread (0: free) and depth
    tpc,           \* per thread: where it is in get_config/initialize_config
    tcall,         \* per thread: the call it is making (function, extra)
    tret,          \* per thread: what its last call returned or raised
    ncalls,        \* per thread: calls made so far
    environ,       \* os.environ.get('PALLADIUM_CONFIG')
    fnames,        \* _get_config: the file names split from the variable
    gconfigs,      \* _get_config: the sources evaluated so far
    syspath,       \* sys.path
    reads,         \* history: the files opened, in order
    folded         \* history: line 227 has folded the result into _config

pvars == <<heap, pc, at, configs, idx, config_final, config_org, handler,
           stack, fin, logcfg, result, err, trace, calls, input>>
gvars == <<initialized, lock, tpc, tcall, tret, ncalls, environ, fnames,
           gconfigs, syspath, reads, folded>>
vars == <<pvars, gvars>>

NoHandler == [key |-> <<>>, configs |-> <<>>, config |-> VNone,
              components |-> <<>>]
NoErr == [type |-> "", arg |-> <<>>]

Event(e, i, pass) == [e |-> e, i |-> i, pass |-> pass]
\* a call in the history; walk tells the walks apart: the number of phases
\* started when the call was made
Call(e, name, p, v, st) == [e |-> e, name |-> name, p |-> p, v |-> v,
                            st |-> st, walk |-> Len(trace)]

\* ------------------------------------------------------------------------
\* process_config
\* ------------------------------------------------------------------------
\* line 186: config_final = {}
process_config_begin ==
    /\ pc = "start"
    /\ LET r == New(heap, Obj("dict", <<>>))
       IN /\ heap' = r.h
          /\ config_final' = r.v
    /\ pc' = "merge"
    /\ idx' = 1
    /\ UNCHANGED <<at, configs, config_org, handler, stack, fin, logcfg,
                   result, err, trace, calls, input, gvars>>

\* lines 188-190: the next source is merged into config_final
process_config_merge ==
    /\ pc = "merge"
    /\ idx <= Len(configs)
    /\ LET org == deepcopy(heap, config_final)
           config == configs[idx]
       IN IF IsDict(org.h, config)
          THEN /\ heap' = [org.h EXCEPT ![config_final.n].items =
                              Update(@, org.h[config.n].items)]
               /\ config_org' = org.v
               /\ pc' = "copy1"
               /\ at' = "enter"
               /\ err' = err
               /\ trace' = Append(trace, Event("merge", idx, 0))
          ELSE /\ heap' = org.h
               /\ config_org' = org.v
               /\ pc' = "raised"
               /\ at' = "-"
               /\ err' = [type |-> "TypeError", arg |-> <<>>]
               /\ trace' = trace
    /\ UNCHANGED <<configs, idx, config_final, handler, stack, fin, logcfg,
                   result, calls, input, gvars>>

\* line 188: the for loop is exhausted; line 196 is next
process_config_merged ==
    /\ pc = "merge"
    /\ idx > Len(configs)
    /\ pc' = "python"
    /\ at' = "enter"
    /\ UNCHANGED <<heap, configs, idx, config_final, config_org, handler,
                   stack, fin, logcfg, result, err, trace, calls, input,
                   gvars>>

\* ------------------------------------------------------------------------
\* _run_config_handlers
\* ------------------------------------------------------------------------
Walking == pc \in {"copy1", "copy2", "python", "component"}

\* a walker without the list branch of lines 153-161
Frame_nolist(h, v) ==
    [node |-> v.n, kind |-> h[v.n].kind,
     snap |-> IF h[v.n].kind = "dict" THEN h[v.n].items ELSE <<>>,
     i |-> IF h[v.n].kind = "dict" THEN 1 ELSE Len(h[v.n].items) + 1,
     st |-> "visit", val |-> VNone]

Frame(h, v) ==
    [node |-> v.n, kind |-> h[v.n].kind,
     snap |-> IF h[v.n].kind = "dict" THEN h[v.n].items ELSE <<>>,
     i |-> 1, st |-> "visit", val |-> VNone]

\* a driver with lines 196 and 197 in the other order
handlers_of_phase_swapped(h) ==
    IF pc = "copy1"
    THEN [h |-> h,
          hd |-> [NoHandler EXCEPT !.key = KeyCopy,
                     !.configs = <<config_org, configs[idx]>>]]
    ELSE IF pc = "copy2"
    THEN LET e == New(h, Obj("dict", <<>>))
         IN [h |-> e.h,
             hd |-> [NoHandler EXCEPT !.key = KeyCopy,
                        !.configs = <<config_final, e.v>>]]
    ELSE IF pc = "python"
    THEN [h |-> h,
          hd |-> [NoHandler EXCEPT !.key = KeyFactory,
                     !.config = config_final]]
    ELSE [h |-> h,
          hd |-> [NoHandler EXCEPT !.key = KeyPython,
                     !.config = config_final]]

\* _handlers_phase0 on line 192 and on line 194, _handlers_phase1,
\* _handlers_phase2: the handler of the phase, and the heap after building
\* its arguments
handlers_of_phase(h) ==
    IF pc = "copy1"
    THEN [h |-> h,
          hd |-> [NoHandler EXCEPT !.key = KeyCopy,
                     !.configs = <<config_org, configs[idx]>>]]
    ELSE IF pc = "copy2"
    THEN LET e == New(h, Obj("dict", <<>>))
         IN [h |-> e.h,
             hd |-> [NoHandler EXCEPT !.key = KeyCopy,
                        !.configs = <<config_final, e.v>>]]
    ELSE IF pc = "python"
    THEN [h |-> h,
          hd |-> [NoHandler EXCEPT !.key = KeyPython,
                     !.config = config_final]]
    ELSE [h |-> h,
          hd |-> [NoHandler EXCEPT !.key = KeyFactory,
                     !.config = config_final]]

\* lines 165-166: the configuration is wrapped and the walk starts
run_config_handlers_enter ==
    /\ Walking
    /\ at = "enter"
    /\ LET hs == handlers_of_phase(heap)
           wrapped_config ==
               New(hs.h, Obj("dict", <<Item(KeyRoot, config_final)>>))
       IN /\ heap' = wrapped_config.h
          /\ handler' = hs.hd
          /\ stack' = <<Frame(wrapped_config.h, wrapped_config.v)>>
    /\ at' = "walk"
    /\ trace' = Append(trace,
                       Event(IF pc \in {"copy1", "copy2"} THEN "copy" ELSE pc,
                             IF pc \in {"copy1", "copy2"} THEN idx ELSE 0,
                             IF pc = "copy1" THEN 1
                             ELSE IF pc = "copy2" THEN 2 ELSE 0))
    /\ UNCHANGED <<pc, configs, idx, config_final, config_org, fin, logcfg,
                   result, err, calls, input, gvars>>

\* ------------------------------------------------------------------------
\* _run_config_handlers_recursive, one activation per stack frame
\* ------------------------------------------------------------------------
Top == stack[Len(stack)]

\* the elements the loop of a frame runs over: the tuple taken from the
\* dict when the loop started, or the list itself
Elements(f) == IF f.kind = "dict" THEN f.snap ELSE heap[f.node].items

Exhausted(f) == f.i > Len(Elements(f))

Current(f) == Elements(f)[f.i].v

\* a walker that counts list elements from one
NameOf_onebased(f) ==
    IF f.kind = "dict" THEN f.snap[f.i].k ELSE IntToStr(f.i)

\* the name a handler is called with: the key, or str(i) of the index
NameOf(f) == IF f.kind = "dict" THEN f.snap[f.i].k ELSE IntToStr(f.i - 1)

\* props[key] = v, props[i] = v
Assign(h, f, v) ==
    IF f.kind = "dict"
    THEN [h EXCEPT ![f.node].items = Set(@, f.snap[f.i].k, v)]
    ELSE [h EXCEPT ![f.node].items[f.i].v = v]

SetTop(f) == [stack EXCEPT ![Len(stack)] = f]

Advance(f) == [f EXCEPT !.i = f.i + 1, !.st = "visit", !.val = VNone]

InWalk == Walking /\ at = "walk" /\ stack # <<>>

\* lines 146/151 and 155/160: the element is neither a dict nor a list
walk_skip ==
    /\ InWalk
    /\ Top.st = "visit"
    /\ ~Exhausted(Top)
    /\ ~IsDict(heap, Current(Top))
    /\ ~IsList(heap, Current(Top))
    /\ stack' = SetTop(Advance(Top))
    /\ UNCHANGED <<heap, pc, at, configs, idx, config_final, config_org,
                   handler, fin, logcfg, result, err, trace, calls, input,
                   gvars>>

\* lines 147, 152, 156, 161: the recursive call on a dict or a list
walk_descend ==
    /\ InWalk
    /\ Top.st = "visit"
    /\ ~Exhausted(Top)
    /\ IsDict(heap, Current(Top)) \/ IsList(heap, Current(Top))
    /\ LET value == Current(Top)
       IN stack' = Append(SetTop([Top EXCEPT !.st = "post", !.val = value]),
                          Frame(heap, value))
    /\ UNCHANGED <<heap, pc, at, configs, idx, config_final, config_org,
                   handler, fin, logcfg, result, err, trace, calls, input,
                   gvars>>

\* the loop of an activation ends and the activation returns; an
\* activation that was called on a list element of the caller (lines 152,
\* 161) leaves the caller at its next element
walk_return ==
    /\ InWalk
    /\ Top.st = "visit"
    /\ Exhausted(Top)
    /\ LET rest == SubSeq(stack, 1, Len(stack) - 1)
       IN IF rest # <<>> /\ Top.kind = "list"
          THEN stack' = [rest EXCEPT ![Len(rest)] = Advance(rest[Len(rest)])]
          ELSE stack' = rest
    /\ UNCHANGED <<heap, pc, at, configs, idx, config_final, config_org,
                   handler, fin, logcfg, result, err, trace, calls, input,
                   gvars>>

\* lines 148-149, 157-158: the dict carries no key of the phase's handler
walk_no_directive ==
    /\ InWalk
    /\ Top.st = "post"
    /\ ~Has(heap[Top.val.n].items, handler.key)
    /\ stack' = SetTop(Advance(Top))
    /\ UNCHANGED <<heap, pc, at, configs, idx, config_final, config_org,
                   handler, fin, logcfg, result, err, trace, calls, input,
                   gvars>>

CanHandle(key) ==
    /\ InWalk
    /\ Top.st = "post"
    /\ handler.key = key
    /\ Has(heap[Top.val.n].items, key)

\* a walker that looks at what the handler returned once more
Handled_again(e, r) ==
    /\ calls' = Append(calls, Call(e, NameOf(Top), Top.val.n, r.v, r.st))
    /\ IF r.st = "ok"
       THEN /\ heap' = Assign(r.h, Top, r.v)
            /\ stack' = IF IsDict(r.h, r.v) /\ r.v # Top.val
                            /\ Has(r.h[r.v.n].items, handler.key)
                         THEN SetTop([Top EXCEPT !.val = r.v])
                         ELSE SetTop(Advance(Top))
            /\ UNCHANGED <<pc, at, err>>
       ELSE /\ heap' = r.h
            /\ pc' = "raised"
            /\ at' = "-"
            /\ err' = [type |-> r.st, arg |-> r.arg]
            /\ UNCHANGED stack

\* a walker that swallows the exception of a handler and goes on
Handled_suppressed(e, r) ==
    /\ calls' = Append(calls, Call(e, NameOf(Top), Top.val.n, r.v, r.st))
    /\ heap' = IF r.st = "ok" THEN Assign(r.h, Top, r.v) ELSE r.h
    /\ stack' = SetTop(Advance(Top))
    /\ UNCHANGED <<pc, at, err>>

\* lines 150, 159: value = props[key] = handler(key, value); an exception
\* of the handler ends process_config
Handled(e, r) ==
    /\ calls' = Append(calls, Call(e, NameOf(Top), Top.val.n, r.v, r.st))
    /\ IF r.st = "ok"
       THEN /\ heap' = Assign(r.h, Top, r.v)
            /\ stack' = SetTop(Advance(Top))
            /\ UNCHANGED <<pc, at, err>>
       ELSE /\ heap' = r.h
            /\ pc' = "raised"
            /\ at' = "-"
            /\ err' = [type |-> r.st, arg |-> r.arg]
            /\ UNCHANGED stack

handle_copy ==
    /\ CanHandle(KeyCopy)
    /\ Handled("copy", CopyHandler_call(heap, handler.configs, Top.val.n))
    /\ UNCHANGED <<configs, idx, config_final, config_org, handler, fin,
                   logcfg, result, trace, input, gvars>>

handle_python ==
    /\ CanHandle(KeyPython)
    /\ Handled("python", PythonHandler_call(heap, handler.config, Top.val.n))
    /\ UNCHANGED <<configs, idx, config_final, config_org, handler, fin,
                   logcfg, result, trace, input, gvars>>

\* a component handler that puts the new component first in its list
handle_component_prepend ==
    /\ CanHandle(KeyFactory)
    /\ LET r == ComponentHandler_call(heap, NameOf(Top), Top.val.n)
       IN /\ Handled("factory", r)
          /\ handler' = IF r.st = "ok"
                        THEN [handler EXCEPT !.components = <<r.v>> \o @]
                        ELSE handler
    /\ UNCHANGED <<configs, idx, config_final, config_org, fin, logcfg,
                   result, trace, input, gvars>>

\* lines 42-53 with line 52: self.components.append(component)
handle_component ==
    /\ CanHandle(KeyFactory)
    /\ LET r == ComponentHandler_call(heap, NameOf(Top), Top.val.n)
       IN /\ Handled("factory", r)
          /\ handler' = IF r.st = "ok"
                        THEN [handler EXCEPT !.components = Append(@, r.v)]
                        ELSE handler
    /\ UNCHANGED <<configs, idx, config_final, config_org, fin, logcfg,
                   result, trace, input, gvars>>

\* line 167: the walk is over
run_config_handlers_walked ==
    /\ Walking
    /\ at = "walk"
    /\ stack = <<>>
    /\ at' = "finish"
    /\ fin' = 1
    /\ trace' = IF handler.key = KeyFactory
                THEN Append(trace, Event("finish", 0, 0))
                ELSE trace
    /\ UNCHANGED <<heap, pc, configs, idx, config_final, config_org, handler,
                   stack, logcfg, result, err, calls, input, gvars>>

\* lines 56-58: one turn of the loop of ComponentHandler.finish
ComponentHandler_finish ==
    /\ Walking
    /\ at = "finish"
    /\ handler.key = KeyFactory
    /\ fin <= Len(handler.components)
    /\ LET component == handler.components[fin]
           hook == IsKind(heap, component, "obj")
                      /\ HasHook(heap[component.n].cls[1])
           raises == hook /\ HookRaises(heap[component.n].cls[1])
       IN /\ heap' = IF hook /\ ~raises
                     THEN [heap EXCEPT ![component.n].inits =
                              Append(@, handler.config)]
                     ELSE heap
          /\ calls' = IF hook
                      THEN Append(calls,
                                  Call("hook", <<>>, component.n,
                                       handler.config,
                                       IF raises THEN "ValueError" ELSE "ok"))
                      ELSE calls
          /\ IF raises
             THEN /\ pc' = "raised"
                  /\ at' = "-"
                  /\ err' = [type |-> "ValueError", arg |-> <<>>]
                  /\ fin' = fin
             ELSE /\ fin' = fin + 1
                  /\ UNCHANGED <<pc, at, err>>
    /\ UNCHANGED <<configs, idx, config_final, config_org, handler, stack,
                   logcfg, result, trace, input, gvars>>

\* a driver that forgets the second copy walk of line 193
run_config_handlers_return_once ==
    /\ Walking
    /\ at = "finish"
    /\ handler.key = KeyFactory => fin > Len(handler.components)
    /\ IF pc \in {"copy1", "copy2"}
       THEN pc' = "merge" /\ at' = "-" /\ idx' = idx + 1
       ELSE IF pc = "python"
       THEN pc' = "component" /\ at' = "enter" /\ idx' = idx
       ELSE pc' = "logging" /\ at' = "-" /\ idx' = idx
    /\ UNCHANGED <<heap, configs, config_final, config_org, handler, stack,
                   fin, logcfg, result, err, trace, calls, input, gvars>>

\* line 170: _run_config_handlers returns (its value is dropped by
\* process_config) and process_config goes on with its next statement
run_config_handlers_return ==
    /\ Walking
    /\ at = "finish"
    /\ handler.key = KeyFactory => fin > Len(handler.components)
    /\ IF pc = "copy1" THEN pc' = "copy2" /\ at' = "enter" /\ idx' = idx
       ELSE IF pc = "copy2"
       THEN pc' = "merge" /\ at' = "-" /\ idx' = idx + 1
       ELSE IF pc = "python"
       THEN pc' = "component" /\ at' = "enter" /\ idx' = idx
       ELSE pc' = "logging" /\ at' = "-" /\ idx' = idx
    /\ UNCHANGED <<heap, configs, config_final, config_org, handler, stack,
                   fin, logcfg, result, err, trace, calls, input, gvars>>

\* lines 173-177 and 198-199
initialize_logging ==
    /\ pc = "logging"
    /\ logcfg' = IF Has(heap[config_final.n].items, KeyLogging)
                 THEN <<"dictConfig",
                        Get(heap[config_final.n].items, KeyLogging)>>
                 ELSE <<"basicConfig", VNone>>
    /\ trace' = Append(trace, Event("logging", 0, 0))
    /\ result' = config_final
    /\ pc' = "done"
    /\ UNCHANGED <<heap, at, configs, idx, config_final, config_org, handler,
                   stack, fin, err, calls, input, gvars>>

process_config ==
    \/ process_config_begin
    \/ process_config_merge
    \/ process_config_merged
    \/ run_config_handlers_enter
    \/ walk_skip
    \/ walk_descend
    \/ walk_return
    \/ walk_no_directive
    \/ handle_copy
    \/ handle_python
    \/ handle_component
    \/ run_config_handlers_walked
    \/ ComponentHandler_finish
    \/ run_config_handlers_return
    \/ initialize_logging

\* ------------------------------------------------------------------------
\* The sources the runs are made of
\* ------------------------------------------------------------------------
KeyB == <<"b">>
KeyK == <<"k">>
KeyL == <<"l">>
KeyM == <<"m">>
KeyX == <<"x">>
KeyY == <<"y">>
KeySub == <<"sub">>
FactoryE == <<"p", ".", "m", ".", "E">>
FactoryDict == <<"builtins", ":", "dict">>
FactoryNsF == <<"p", ".", "m", ":", "ns", ".", "F">>
FactoryH == <<"p", ".", "m", ".", "H">>
FactoryZ == <<"p", ".", "m", ".", "Z">>
KeyBang == <<"!">>

FNode(factory, items) == LDict(<<Item(KeyFactory, LStr(factory))>> \o items)
CNode(path, items) == LDict(<<Item(KeyCopy, LStr(path))>> \o items)

SourcePool ==
    << \* a component with a nested component, and an overriding copy of it
       LDict(<<Item(KeyA, FNode(FactoryF, <<Item(KeyX, LInt(1)),
                                   Item(KeySub, FNode(FactoryNsF, <<>>))>>)),
               Item(KeyB, CNode(KeyA, <<Item(KeyX, LInt(2))>>))>>),
       \* plain values
       LDict(<<Item(KeyM, LDict(<<Item(KeyX, LInt(1))>>)),
               Item(KeyK, LInt(1))>>),
       \* a copy of the key's own earlier value, with an override
       LDict(<<Item(KeyM, CNode(KeyM, <<Item(KeyY, LInt(2))>>)),
               Item(KeyK, LInt(2))>>),
       \* a fragment that rewrites one factory and inserts another
       LDict(<<Item(KeyA, FNode(FactoryF, <<Item(KeyX, LInt(1))>>)),
               Item(KeyB, CNode(KeyA, <<Item(KeyX, LInt(2))>>)),
               Item(KeyPython,
                    LStr(<<"C['a']['__factory__'] = 'p.m:G'",
                           "C['new'] = {'__factory__': 'p.m.F'}">>))>>),
       \* components in and below lists, a logging configuration
       LDict(<<Item(KeyA,
                    FNode(FactoryF,
                          <<Item(KeySub, LList(<<LList(<<
                              FNode(FactoryG, <<Item(KeyX,
                                  FNode(FactoryDict,
                                        <<Item(KeyY, LInt(1))>>))>>)
                              >>)>>))>>)),
               Item(KeyL, LList(<<FNode(FactoryG, <<>>), LInt(7)>>)),
               Item(KeyLogging, LInt(5))>>),
       \* a nested fragment, a nested plain mapping under "a"
       LDict(<<Item(KeyA, LDict(<<Item(KeyX, LInt(3)),
                                  Item(KeySub, LDict(<<
                                      Item(KeyPython,
                                           LStr(<<"C['other'] = 13">>)),
                                      Item(KeyY, LInt(1))>>))>>)),
               Item(KeyB, LInt(4))>>),
       \* a copy of a scalar
       LDict(<<Item(KeyB, CNode(<<"a", ".", "x">>, <<>>))>>),
       \* a factory that raises
       LDict(<<Item(KeyK, FNode(FactoryE, <<>>))>>),
       \* a bare copy of the key's own earlier value, a copy of another key
       LDict(<<Item(KeyK, CNode(KeyK, <<>>)),
               Item(KeyB, CNode(KeyM, <<Item(KeyX, LInt(5))>>))>>),
       \* a component whose hook raises, before one whose hook does not
       LDict(<<Item(KeyA, FNode(FactoryH, <<Item(KeyX, LInt(1))>>)),
               Item(KeyB, FNode(FactoryF, <<>>))>>),
       \* a factory name that does not resolve, between two that do
       LDict(<<Item(KeyA, FNode(FactoryF, <<>>)),
               Item(KeyK, FNode(FactoryZ, <<>>)),
               Item(KeyB, FNode(FactoryG, <<>>))>>),
       \* nodes with two directive keys, and one with the key '!'
       LDict(<<Item(KeyA, FNode(FactoryF, <<Item(KeyX, LInt(1))>>)),
               Item(KeyB, CNode(KeyA, <<Item(KeyFactory, LStr(FactoryG)),
                                        Item(KeyY, LInt(2))>>)),
               Item(KeyM, LDict(<<Item(KeyPython,
                                       LStr(<<"C['other'] = 13">>)),
                                  Item(KeyFactory, LStr(FactoryG))>>)),
               Item(KeyK, LDict(<<Item(KeyBang, LStr(FactoryF)),
                                  Item(KeyX, LInt(1))>>))>>),
       \* a chain of copies, each of the key that follows it
       LDict(<<Item(KeyA, CNode(KeyB, <<>>)),
               Item(KeyB, CNode(KeyK, <<>>)),
               Item(KeyK, CNode(KeyL, <<>>)),
               Item(KeyL, CNode(KeyM, <<>>)),
               Item(KeyM, LDict(<<Item(KeyX, LInt(1))>>))>>),
       \* two copies of each other
       LDict(<<Item(KeyA, CNode(KeyB, <<Item(KeyX, LInt(1))>>)),
               Item(KeyB, CNode(KeyA, <<>>))>>),
       \* a root mapping that is itself a copy node
       LDict(<<Item(KeyCopy, LStr(KeyA)),
               Item(KeyA, LDict(<<Item(KeyX, LInt(1))>>))>>),
       \* a copy whose path runs into a number
       LDict(<<Item(KeyA, LInt(4)),
               Item(KeyB, CNode(<<"a", ".", "x">>, <<>>))>>)
    >>

RECURSIVE ListsOfLen(_)
ListsOfLen(n) ==
    IF n = 0 THEN {<<>>}
    ELSE {Append(l, a) : l \in ListsOfLen(n - 1), a \in 1..Len(SourcePool)}

SourceLists == UNION {ListsOfLen(n) : n \in 0..MaxSources}

\* ------------------------------------------------------------------------
\* Initial states and specifications
\* ------------------------------------------------------------------------
Threads == {1, 2}

Config == Obj("dict", <<>>)

NoCall == [fn |-> "", extra |-> <<>>]
NoReturn == [fn |-> "", st |-> "", v |-> VNone, items |-> <<>>,
             built |-> FALSE]

GInit ==
    /\ initialized = FALSE
    /\ lock = [owner |-> 0, depth |-> 0]
    /\ tpc = [t \in Threads |-> "idle"]
    /\ tcall = [t \in Threads |-> NoCall]
    /\ tret = [t \in Threads |-> NoReturn]
    /\ ncalls = [t \in Threads |-> 0]
    /\ fnames = <<>>
    /\ gconfigs = <<>>
    /\ syspath = <<>>
    /\ reads = <<>>
    /\ folded = FALSE

\* a caller evaluates a list of sources and calls process_config(*configs)
Init ==
    /\ \E f \in SourceLists :
          /\ input = [i \in 1..Len(f) |-> SourcePool[f[i]]]
          /\ LET r == AllocAll(<<Config>>, input, 1, <<>>)
             IN /\ heap = r.h
                /\ configs = r.vs
    /\ pc = "start"
    /\ at = "-"
    /\ idx = 0
    /\ config_final = VNone
    /\ config_org = VNone
    /\ handler = NoHandler
    /\ stack = <<>>
    /\ fin = 0
    /\ logcfg = <<>>
    /\ result = VNone
    /\ err = NoErr
    /\ trace = <<>>
    /\ calls = <<>>
    /\ environ = VNone
    /\ GInit

Next == process_config

Spec == Init /\ [][Next]_vars

\* ------------------------------------------------------------------------
\* The singleton: get_config, _get_config, initialize_config
\* ------------------------------------------------------------------------
Store == VRef(1)

\* the files there are, and what each evaluates to
PathF1 == <<"d", "/", "f1">>
PathF2 == <<"e", "/", "f2">>
PathF3 == <<"d", "/", "f3">>
PathF4 == <<"d", "/", "f4">>
PathNone == <<"d", "/", "none">>

FactoryB == <<"p", ".", "m", ".", "B">>
KeyBad == <<"bad">>

Files == {<<PathF1, SourcePool[2]>>, <<PathF2, SourcePool[3]>>,
          <<PathF3, SourcePool[4]>>,
          <<PathF4, LDict(<<Item(KeyBad, FNode(FactoryB, <<>>))>>)>>}

Exists(fname) == \E f \in Files : f[1] = fname
Content(fname) == (CHOOSE f \in Files : f[1] = fname)[2]

\* the values PALLADIUM_CONFIG may have
EnvPool ==
    {VNone, VStr(PathF1), VStr(PathF2), VStr(PathF3), VStr(PathF4),
     VStr(PathF1 \o <<",", " ">> \o PathF2),
     VStr(<<" ">> \o PathF1 \o <<" ", ",">> \o PathNone)}

\* the keyword arguments a call may pass
Extras == {<<>>, <<Item(KeyK, LInt(7))>>}

\* os.path.dirname
dirname(fname) ==
    IF Contains(fname, "/")
    THEN SubSeq(fname, 1, LastIndex(fname, "/") - 1)
    ELSE <<>>

\* leaving the with block of get_config, by return or by exception
Release(l) ==
    IF l.depth = 1 THEN [owner |-> 0, depth |-> 0]
    ELSE [l EXCEPT !.depth = @ - 1]

\* the store holds everything a call can ever put into it
Built == initialized /\ (environ.t = "none" \/ folded)

Returned(t, st) ==
    [fn |-> tcall[t].fn, st |-> st,
     v |-> IF st = "ok" THEN Store ELSE VNone,
     items |-> IF st = "ok" THEN heap[1].items ELSE <<>>,
     built |-> st = "ok" /\ Built]

\* a thread calls get_config(**extra) or initialize_config(**extra)
caller_call(t, fn, extra) ==
    /\ tpc[t] = "idle"
    /\ ncalls[t] < MaxCalls
    /\ ncalls' = [ncalls EXCEPT ![t] = @ + 1]
    /\ tcall' = [tcall EXCEPT ![t] = [fn |-> fn, extra |-> extra]]
    /\ tpc' = [tpc EXCEPT ![t] = IF fn = "initialize_config" THEN "check"
                                 ELSE "acquire"]
    /\ UNCHANGED <<pvars, initialized, lock, tret, environ, fnames,
                   gconfigs, syspath, reads, folded>>

\* an initialize_config without the test of line 232
initialize_config_check_lenient(t) ==
    /\ tpc[t] = "check"
    /\ tpc' = [tpc EXCEPT ![t] = "acquire"]
    /\ tret' = tret
    /\ UNCHANGED <<pvars, initialized, lock, tcall, ncalls, environ, fnames,
                   gconfigs, syspath, reads, folded>>

\* lines 232-234
initialize_config_check(t) ==
    /\ tpc[t] = "check"
    /\ IF initialized
       THEN /\ tret' = [tret EXCEPT ![t] = Returned(t, "RuntimeError")]
            /\ tpc' = [tpc EXCEPT ![t] = "idle"]
       ELSE /\ tpc' = [tpc EXCEPT ![t] = "acquire"]
            /\ tret' = tret
    /\ UNCHANGED <<pvars, initialized, lock, tcall, ncalls, environ, fnames,
                   gconfigs, syspath, reads, folded>>

\* line 206: with _get_config_lock (a reentrant lock)
get_config_acquire(t) ==
    /\ tpc[t] = "acquire"
    /\ lock.owner \in {0, t}
    /\ lock' = [owner |-> t, depth |-> lock.depth + 1]
    /\ tpc' = [tpc EXCEPT ![t] = "locked"]
    /\ UNCHANGED <<pvars, initialized, tcall, tret, ncalls, environ, fnames,
                   gconfigs, syspath, reads, folded>>

\* a _get_config with the _config.update(extra) of line 213 before the
\* test of line 212
get_config_enter_extra(t) ==
    /\ tpc[t] = "locked"
    /\ tpc' = [tpc EXCEPT ![t] = IF initialized THEN "return" ELSE "mark"]
    /\ LET extra == Alloc(heap, LDict(tcall[t].extra))
       IN heap' = [extra.h EXCEPT ![1].items =
                      Update(@, extra.h[extra.v.n].items)]
    /\ input' = IF initialized THEN input ELSE <<LDict(tcall[t].extra)>>
    /\ UNCHANGED <<pc, at, configs, idx, config_final, config_org, handler,
                   stack, fin, logcfg, result, err, trace, calls,
                   initialized, lock, tcall, tret, ncalls, environ, fnames,
                   gconfigs, syspath, reads, folded>>

\* a _get_config without the _config.update(extra) of line 213
get_config_enter_noextra(t) ==
    /\ tpc[t] = "locked"
    /\ IF initialized
       THEN /\ tpc' = [tpc EXCEPT ![t] = "return"]
            /\ input' = input
       ELSE /\ tpc' = [tpc EXCEPT ![t] = "mark"]
            /\ input' = <<LDict(tcall[t].extra)>>
    /\ UNCHANGED <<heap, pc, at, configs, idx, config_final, config_org,
                   handler, stack, fin, logcfg, result, err, trace, calls,
                   initialized, lock, tcall, tret, ncalls, environ, fnames,
                   gconfigs, syspath, reads, folded>>

\* a _get_config without the test of line 212
get_config_enter_always(t) ==
    /\ tpc[t] = "locked"
    /\ tpc' = [tpc EXCEPT ![t] = "mark"]
    /\ LET extra == Alloc(heap, LDict(tcall[t].extra))
       IN heap' = [extra.h EXCEPT ![1].items =
                      Update(@, extra.h[extra.v.n].items)]
    /\ input' = <<LDict(tcall[t].extra)>>
    /\ UNCHANGED <<pc, at, configs, idx, config_final, config_org, handler,
                   stack, fin, logcfg, result, err, trace, calls,
                   initialized, lock, tcall, tret, ncalls, environ, fnames,
                   gconfigs, syspath, reads, folded>>

\* lines 212-213: the test of the flag, and _config.update(extra)
get_config_enter(t) ==
    /\ tpc[t] = "locked"
    /\ IF initialized
       THEN /\ tpc' = [tpc EXCEPT ![t] = "return"]
            /\ heap' = heap
            /\ input' = input
       ELSE /\ tpc' = [tpc EXCEPT ![t] = "mark"]
            /\ LET extra == Alloc(heap, LDict(tcall[t].extra))
               IN heap' = [extra.h EXCEPT ![1].items =
                              Update(@, extra.h[extra.v.n].items)]
            /\ input' = <<LDict(tcall[t].extra)>>
    /\ UNCHANGED <<pc, at, configs, idx, config_final, config_org, handler,
                   stack, fin, logcfg, result, err, trace, calls,
                   initialized, lock, tcall, tret, ncalls, environ, fnames,
                   gconfigs, syspath, reads, folded>>

\* line 214: _config.initialized = True
get_config_mark(t) ==
    /\ tpc[t] = "mark"
    /\ initialized' = TRUE
    /\ tpc' = [tpc EXCEPT ![t] = "environ"]
    /\ UNCHANGED <<pvars, lock, tcall, tret, ncalls, environ, fnames,
                   gconfigs, syspath, reads, folded>>

\* lines 215-218: the variable is read and split into stripped file names
get_config_environ(t) ==
    /\ tpc[t] = "environ"
    /\ IF environ.t = "none"
       THEN /\ tpc' = [tpc EXCEPT ![t] = "return"]
            /\ fnames' = fnames
       ELSE /\ tpc' = [tpc EXCEPT ![t] = "files"]
            /\ fnames' = LET parts == Split(environ.s, ",")
                         IN [i \in 1..Len(parts) |-> Strip(parts[i])]
    /\ gconfigs' = <<>>
    /\ UNCHANGED <<pvars, initialized, lock, tcall, tret, ncalls, environ,
                   syspath, reads, folded>>

\* lines 219-226: one turn of the loop over the file names; a file that
\* cannot be opened ends the call with the exception
get_config_open(t) ==
    /\ tpc[t] = "files"
    /\ Len(gconfigs) < Len(fnames)
    /\ LET fname == fnames[Len(gconfigs) + 1]
       IN /\ syspath' = <<dirname(fname)>> \o syspath
          /\ reads' = Append(reads, fname)
          /\ IF Exists(fname)
             THEN LET config == Alloc(heap, Content(fname))
                  IN /\ heap' = config.h
                     /\ gconfigs' = Append(gconfigs, config.v)
                     /\ input' = Append(input, Content(fname))
                     /\ UNCHANGED <<lock, tret, tpc>>
             ELSE /\ lock' = Release(lock)
                  /\ tret' = [tret EXCEPT
                                 ![t] = Returned(t, "FileNotFoundError")]
                  /\ tpc' = [tpc EXCEPT ![t] = "idle"]
                  /\ UNCHANGED <<heap, gconfigs, input>>
    /\ UNCHANGED <<pc, at, configs, idx, config_final, config_org, handler,
                   stack, fin, logcfg, result, err, trace, calls,
                   initialized, tcall, ncalls, environ, fnames, folded>>

\* line 227: process_config(_config, *configs) is called
get_config_process(t) ==
    /\ tpc[t] = "files"
    /\ Len(gconfigs) = Len(fnames)
    /\ pc = "idle"
    /\ pc' = "start"
    /\ configs' = <<Store>> \o gconfigs
    /\ tpc' = [tpc EXCEPT ![t] = "process"]
    /\ UNCHANGED <<heap, at, idx, config_final, config_org, handler, stack,
                   fin, logcfg, result, err, trace, calls, input,
                   initialized, lock,
                   tcall, tret, ncalls, environ, fnames, gconfigs, syspath,
                   reads, folded>>

\* line 227: _config.update(...) with what process_config returned
get_config_fold(t) ==
    /\ tpc[t] = "process"
    /\ pc = "done"
    /\ heap' = [heap EXCEPT ![1].items = Update(@, heap[result.n].items)]
    /\ folded' = TRUE
    /\ tpc' = [tpc EXCEPT ![t] = "return"]
    /\ UNCHANGED <<pc, at, configs, idx, config_final, config_org, handler,
                   stack, fin, logcfg, result, err, trace, calls, input,
                   initialized, lock, tcall, tret, ncalls, environ, fnames,
                   gconfigs, syspath, reads>>

\* an exception of process_config leaves _get_config and the with block
get_config_raise(t) ==
    /\ tpc[t] = "process"
    /\ pc = "raised"
    /\ lock' = Release(lock)
    /\ tret' = [tret EXCEPT ![t] = Returned(t, err.type)]
    /\ tpc' = [tpc EXCEPT ![t] = "idle"]
    /\ UNCHANGED <<pvars, initialized, tcall, ncalls, environ, fnames,
                   gconfigs, syspath, reads, folded>>

\* lines 228 and 208: _config is returned, the lock released on the way
get_config_return(t) ==
    /\ tpc[t] = "return"
    /\ lock' = Release(lock)
    /\ tret' = [tret EXCEPT ![t] = Returned(t, "ok")]
    /\ tpc' = [tpc EXCEPT ![t] = "idle"]
    /\ UNCHANGED <<pvars, initialized, tcall, ncalls, environ, fnames,
                   gconfigs, syspath, reads, folded>>

\* the module is imported, PALLADIUM_CONFIG has some value, nothing runs
InitGC ==
    /\ heap = <<Config>>
    /\ pc = "idle"
    /\ at = "-"
    /\ configs = <<>>
    /\ idx = 0
    /\ config_final = VNone
    /\ config_org = VNone
    /\ handler = NoHandler
    /\ stack = <<>>
    /\ fin = 0
    /\ logcfg = <<>>
    /\ result = VNone
    /\ err = NoErr
    /\ trace = <<>>
    /\ calls = <<>>
    /\ input = <<>>
    /\ environ \in EnvPool
    /\ GInit

NextGC ==
    \/ \E t \in Threads : \E fn \in {"get_config", "initialize_config"} :
          \E extra \in Extras : caller_call(t, fn, extra)
    \/ \E t \in Threads : initialize_config_check(t)
    \/ \E t \in Threads : get_config_acquire(t)
    \/ \E t \in Threads : get_config_enter(t)
    \/ \E t \in Threads : get_config_mark(t)
    \/ \E t \in Threads : get_config_environ(t)
    \/ \E t \in Threads : get_config_open(t)
    \/ \E t \in Threads : get_config_process(t)
    \/ \E t \in Threads : get_config_fold(t)
    \/ \E t \in Threads : get_config_raise(t)
    \/ \E t \in Threads : get_config_return(t)
    \/ process_config

SpecGC == InitGC /\ [][NextGC]_vars

\* ------------------------------------------------------------------------
\* Notions the properties are stated with
\* ------------------------------------------------------------------------
IsPrefix(s, t) == Len(s) <= Len(t) /\ s = SubSeq(t, 1, Len(s))

\* the phases of a complete run over n sources
RECURSIVE MergePhases(_)
MergePhases(n) ==
    IF n = 0 THEN <<>>
    ELSE MergePhases(n - 1)
            \o <<Event("merge", n, 0), Event("copy", n, 1),
                 Event("copy", n, 2)>>

AllPhases(n) ==
    MergePhases(n)
        \o <<Event("python", 0, 0), Event("component", 0, 0),
             Event("finish", 0, 0), Event("logging", 0, 0)>>

\* the dicts below a set of objects that carry a key
Carrying(h, S, key) ==
    {i \in Reachable(h, S) : h[i].kind = "dict" /\ Has(h[i].items, key)}

\* a value as a tree, identities forgotten
RECURSIVE Tree(_, _)
Tree(h, v) ==
    IF v.t # "ref" THEN [t |-> v.t, n |-> v.n, s |-> v.s, items |-> <<>>]
    ELSE [t |-> h[v.n].kind, n |-> 0, s |-> h[v.n].cls,
          items |-> [j \in 1..Len(h[v.n].items) |->
                        Item(h[v.n].items[j].k, Tree(h, h[v.n].items[j].v))]]

\* a literal as a tree
RECURSIVE LitTree(_)
LitTree(lit) ==
    [t |-> lit.lk, n |-> lit.n, s |-> lit.s,
     items |-> [j \in 1..Len(lit.items) |->
                   Item(lit.items[j].k, LitTree(lit.items[j].v))]]

Done == pc = "done"
Final == heap[result.n].items

IsObjOf(v, cls) == IsKind(heap, v, "obj") /\ heap[v.n].cls = <<cls>>

\* the calls of one kind, and the objects they were made on or returned
CallsOf(e) == {i \in 1..Len(calls) : calls[i].e = e}

\* the last source that defines a top-level key, 0 when none does
LastDefining(k) ==
    IF \E i \in 1..Len(input) : Has(input[i].items, k)
    THEN CHOOSE i \in 1..Len(input) :
            /\ Has(input[i].items, k)
            /\ \A j \in (i + 1)..Len(input) : ~Has(input[j].items, k)
    ELSE 0

NoFragment == \A i \in 1..Len(input) : ~Has(input[i].items, KeyPython)

Directives == {KeyFactory, KeyCopy, KeyPython}

\* C1: the phases of process_config start in one fixed order -- merge and
\* the two copy walks source by source, then python, component, finish and
\* logging, each once -- so the phases started so far are always a
\* beginning of that order, and all of it when the run has returned
C1_PhaseOrder ==
    /\ pc # "idle" => IsPrefix(trace, AllPhases(Len(configs)))
    /\ Done => trace = AllPhases(Len(configs))

C1_Witness == Done /\ Len(configs) = 2 /\ Len(trace) = 10

\* C2: when the factory of a __factory__ node is about to be called, no
\* dict reachable from the node's entries still carries a __factory__ key
C2_BottomUp ==
    CanHandle(KeyFactory) =>
        Carrying(heap, Children(heap, Top.val.n), KeyFactory) = {}

C2_Witness ==
    /\ CanHandle(KeyFactory)
    /\ \E i \in Reachable(heap, Children(heap, Top.val.n)) :
          /\ heap[i].kind = "obj"
          /\ \E j \in Children(heap, Top.val.n) : heap[j].kind = "list"

\* C3: with a = {__factory__: F, x: 1, ...} and b = {__copy__: 'a', x: 2}
\* in the last source and no fragment, the run makes one F for a with x=1
\* and another F for b with x=2, each by one factory call, and nothing
\* reachable from a is reachable from b
RoundTripInput ==
    /\ input # <<>>
    /\ NoFragment
    /\ LET last == input[Len(input)].items
       IN /\ Has(last, KeyA)
          /\ Has(last, KeyB)
          /\ Get(last, KeyA).lk = "dict"
          /\ Has(Get(last, KeyA).items, KeyFactory)
          /\ Get(Get(last, KeyA).items, KeyFactory) = LStr(FactoryF)
          /\ Has(Get(last, KeyA).items, KeyX)
          /\ Get(Get(last, KeyA).items, KeyX) = LInt(1)
          /\ Get(last, KeyB) = CNode(KeyA, <<Item(KeyX, LInt(2))>>)

C3_CopyRoundTrip ==
    Done /\ RoundTripInput =>
        LET a == Get(Final, KeyA)
            b == Get(Final, KeyB)
        IN /\ IsObjOf(a, "F")
           /\ IsObjOf(b, "F")
           /\ a # b
           /\ Get(heap[a.n].items, KeyX) = VInt(1)
           /\ Get(heap[b.n].items, KeyX) = VInt(2)
           /\ Keys(heap[a.n].items) = Keys(heap[b.n].items)
           /\ Reachable(heap, {a.n}) \cap Reachable(heap, {b.n}) = {}
           /\ Cardinality({i \in CallsOf("factory") : calls[i].v = a}) = 1
           /\ Cardinality({i \in CallsOf("factory") : calls[i].v = b}) = 1

C3_Witness ==
    /\ Done
    /\ RoundTripInput
    /\ IsObjOf(Get(heap[Get(Final, KeyA).n].items, KeySub), "F")
    /\ IsObjOf(Get(heap[Get(Final, KeyB).n].items, KeySub), "F")

\* C4: a node {__copy__: 'k', overrides} under the top-level key k of a
\* later source resolves, once the copy walks of that source are over, to
\* a new copy of the value k had before the source was merged, updated
\* with the overrides; source 1 {m: {x: 1}} and source 2
\* {m: {__copy__: 'm', y: 2}} give m = {x: 1, y: 2}
SelfCopyKeys(lit) ==
    {k \in Keys(lit.items) :
        /\ Get(lit.items, k).lk = "dict"
        /\ Has(Get(lit.items, k).items, KeyCopy)
        /\ Get(Get(lit.items, k).items, KeyCopy) = LStr(k)}

Overridden(tree, overrides) ==
    IF overrides = <<>> THEN tree
    ELSE [tree EXCEPT !.items =
            Update(@, [j \in 1..Len(overrides) |->
                          Item(overrides[j].k, LitTree(overrides[j].v))])]

C4_SelfReference ==
    /\ pc = "merge" /\ idx > 1 =>
          \A k \in SelfCopyKeys(input[idx - 1]) :
             LET now == Get(heap[config_final.n].items, k)
                 before == Get(heap[config_org.n].items, k)
                 node == Get(heap[configs[idx - 1].n].items, k)
                 overrides == Del(Get(input[idx - 1].items, k).items, KeyCopy)
             IN /\ Has(heap[config_org.n].items, k)
                /\ Tree(heap, now) = Overridden(Tree(heap, before), overrides)
                /\ now.t = "ref" => now # before /\ now # node
                /\ ~(IsDict(heap, now) /\ Has(heap[now.n].items, KeyCopy))
    /\ (/\ Done
        /\ Len(input) = 2
        /\ Has(input[1].items, KeyM)
        /\ Get(input[1].items, KeyM) = LDict(<<Item(KeyX, LInt(1))>>)
        /\ Has(input[2].items, KeyM)
        /\ Get(input[2].items, KeyM) = CNode(KeyM, <<Item(KeyY, LInt(2))>>))
       => Tree(heap, Get(Final, KeyM))
             = LitTree(LDict(<<Item(KeyX, LInt(1)), Item(KeyY, LInt(2))>>))

C4_Witness ==
    /\ Done
    /\ Len(input) = 2
    /\ KeyM \in SelfCopyKeys(input[2])
    /\ Keys(heap[Get(Final, KeyM).n].items) = {KeyX, KeyY}

\* C5: a merge leaves under every top-level key of the source the
\* source's own value and under every other key the value it had; in the
\* result every top-level key holds what the last source defining it
\* gave: the scalar, a list of that length, or for a mapping without
\* __copy__ exactly the keys of that source's mapping
DefinedKeys ==
    UNION {Keys(input[i].items) : i \in 1..Len(input)} \ Directives

C5_LastSourceWins ==
    /\ pc = "copy1" /\ at = "enter" =>
          LET src == heap[configs[idx].n].items
              cf == heap[config_final.n].items
              org == heap[config_org.n].items
          IN /\ Keys(cf) = Keys(org) \cup Keys(src)
             /\ \A k \in Keys(src) : Get(cf, k) = Get(src, k)
             /\ \A k \in Keys(org) \ Keys(src) :
                   Tree(heap, Get(cf, k)) = Tree(heap, Get(org, k))
    /\ Done =>
          \A k \in DefinedKeys :
             LET lit == Get(input[LastDefining(k)].items, k)
             IN /\ Has(Final, k)
                /\ lit.lk \in {"int", "str"} =>
                      Tree(heap, Get(Final, k)) = LitTree(lit)
                /\ lit.lk = "list" =>
                      /\ IsList(heap, Get(Final, k))
                      /\ Len(heap[Get(Final, k).n].items) = Len(lit.items)
                /\ lit.lk = "dict" /\ ~Has(lit.items, KeyCopy) =>
                      /\ Get(Final, k).t = "ref"
                      /\ Keys(heap[Get(Final, k).n].items)
                            = Keys(lit.items) \ Directives

C5_Witness ==
    /\ Done
    /\ Len(input) = 2
    /\ Has(input[1].items, KeyA) /\ Has(input[2].items, KeyA)
    /\ Get(input[1].items, KeyA) # Get(input[2].items, KeyA)
    /\ Has(Get(input[1].items, KeyA).items, KeySub)
    /\ ~Has(heap[Get(Final, KeyA).n].items, KeySub)

\* C6: every fragment has run before the first factory is called, and a
\* factory directive a fragment inserted (C['new']) or rewrote (C['a'])
\* is the one the component phase instantiates
C6_PythonBeforeFactory ==
    /\ \A i \in CallsOf("python") : \A j \in CallsOf("factory") : i < j
    /\ Done /\ Has(Final, KeyNew) =>
          /\ IsObjOf(Get(Final, KeyNew), "F")
          /\ \E j \in CallsOf("factory") : calls[j].v = Get(Final, KeyNew)
          /\ IsObjOf(Get(Final, KeyA), "G")
          /\ ~\E j \in CallsOf("factory") :
                calls[j].name = KeyA /\ IsObjOf(calls[j].v, "F")

C6_Witness ==
    /\ Done
    /\ Has(Final, KeyNew)
    /\ CallsOf("python") # {}
    /\ IsObjOf(Get(Final, KeyA), "G")

\* C7: finish calls initialize_component once, with the tree that
\* process_config returns, on every component that defines it, in the
\* order of the factory calls and after the last of them; no other
\* component is initialized
HookOrder(S) ==
    \A i, j \in S : i < j =>
        \E a, b \in CallsOf("hook") :
            a < b /\ calls[a].p = calls[i].v.n /\ calls[b].p = calls[j].v.n

Hooked == {i \in CallsOf("factory") :
              calls[i].st = "ok" /\ IsObjOf(calls[i].v, "F")}

C7_FinishHooks ==
    /\ \A i \in CallsOf("hook") : \A j \in CallsOf("factory") : j < i
    /\ \A i \in 1..Len(heap) : Len(heap[i].inits) <= 1
    /\ Done =>
          /\ result = config_final
          /\ Cardinality(CallsOf("hook")) = Cardinality(Hooked)
          /\ HookOrder(Hooked)
          /\ \A i \in Hooked : heap[calls[i].v.n].inits = <<result>>
          /\ \A i \in CallsOf("hook") : calls[i].v = result
          /\ \A i \in 1..Len(heap) :
                heap[i].inits # <<>> =>
                    \E j \in Hooked : calls[j].v = VRef(i)

C7_Witness ==
    /\ Done
    /\ \E i, j \in Hooked :
          /\ i < j
          /\ calls[i].v.n \in Children(heap, calls[j].v.n)
          /\ heap[calls[i].v.n].inits = <<result>>
          /\ heap[calls[j].v.n].inits = <<result>>

\* ------------------------------------------------------------------------
\* The singleton
\* ------------------------------------------------------------------------
\* the with block of get_config
InBlock == {"locked", "mark", "environ", "files", "process", "return"}

\* the file names PALLADIUM_CONFIG lists
EnvNames ==
    IF environ.t = "none" THEN <<>>
    ELSE LET parts == Split(environ.s, ",")
         IN [i \in 1..Len(parts) |-> Strip(parts[i])]

\* C8: get_config calls made while the store is uninitialized serialize
\* on the lock, only one of them resolves the sources, and every call
\* that returns hands back the one store, fully built, with one content
C8_ConcurrentGetConfig ==
    /\ \A t \in Threads : tpc[t] \in InBlock => lock.owner = t
    /\ pc # "idle" => IsPrefix(trace, AllPhases(Len(configs)))
    /\ \A t \in Threads :
          tret[t].st = "ok" /\ tret[t].fn = "get_config" =>
             /\ tret[t].v = Store
             /\ tret[t].built
             /\ \A u \in Threads :
                   tret[u].st = "ok" => tret[u].items = tret[t].items

\* C9: once initialized the store stays initialized, process_config is
\* started at most once and never again, and the files opened are always
\* a beginning of the list PALLADIUM_CONFIG names, each opened once
C9_InitializedOnce ==
    [][/\ initialized => initialized'
       /\ pc # "idle" => pc' # "idle" /\ (pc' = "start" => pc = "start")
       /\ IsPrefix(reads', EnvNames)]_vars

C9_Witness ==
    /\ initialized
    /\ folded
    /\ Len(reads) = 2
    /\ \E t \in Threads : ncalls[t] = 2 /\ tret[t].st = "ok"
    /\ \E t \in Threads : tret[t].st = "RuntimeError"

\* C10: the flag is true only when the sources have been read, resolved
\* and folded into the store (or there are none to read)
C10_MarkedAfterDriver == initialized => environ.t = "none" \/ folded

\* a call that ended with the error of a source that could not be read or
\* resolved
Failed(t) == tret[t].st \notin {"", "ok", "RuntimeError"}

\* C11: once the first get_config has raised because a file could not be
\* read or process_config raised, the store is not marked initialized, and
\* every call that returns hands back a store holding the sources' content
C11_NoDegradedSingleton ==
    /\ (\E t \in Threads : Failed(t)) => ~initialized
    /\ \A t \in Threads : tret[t].st = "ok" => tret[t].built

\* C12: initialize_config tests the flag: when it is set the call ends
\* with RuntimeError and nothing of the store or of the run changes, the
\* extras are not applied; when it is clear the call goes on as get_config
C12_InitializeConfig ==
    [][\A t \in Threads :
          tpc[t] = "check" /\ tpc'[t] # "check" =>
             IF initialized
             THEN /\ tret'[t].fn = "initialize_config"
                  /\ tret'[t].st = "RuntimeError"
                  /\ tpc'[t] = "idle"
                  /\ heap' = heap
                  /\ initialized'
                  /\ UNCHANGED <<pvars, lock, reads, folded>>
             ELSE /\ tpc'[t] = "acquire"
                  /\ tret' = tret
                  /\ UNCHANGED <<pvars, initialized, lock, reads, folded>>]_vars

C12_Witness ==
    /\ \E t \in Threads :
          /\ tret[t].fn = "initialize_config"
          /\ tret[t].st = "RuntimeError"
          /\ tcall[t].extra # <<>>
          /\ tpc[t] = "idle"
    /\ \E t \in Threads :
          tret[t].fn = "initialize_config" /\ tret[t].st = "ok"
    /\ ~Has(heap[1].items, KeyK)

\* the node a copy handler is about to be called on, and its dotted path
CopyNode == Top.val.n
CopyPath == Get(heap[CopyNode].items, KeyCopy)

\* no candidate configuration of the handler has the path, the node's own
\* place in the most recent candidate apart
Unresolvable ==
    \A i \in 1..Len(handler.configs) :
        LET r == resolve_parts(heap, handler.configs[i],
                               Split(CopyPath.s, "."), 1)
        IN \/ r.st = "KeyError"
           \/ /\ i = Len(handler.configs)
              /\ r.st = "ok"
              /\ r.v = VRef(CopyNode)

Raised(c) ==
    IF c.e = "hook"
    THEN IF heap[c.p].cls = <<"H">> THEN "ValueError" ELSE "ok"
    ELSE LET name == Get(heap[c.p].items, KeyFactory)
         IN IF name = VStr(FactoryE) THEN "RuntimeError"
            ELSE IF name = VStr(FactoryZ) THEN "AttributeError"
            ELSE "ok"

\* C14: a factory call, a resolution of a factory name or a hook that
\* raised is the last call of the run; process_config has ended with that
\* very exception, no logging was configured and no result returned
C14_ErrorsPropagate ==
    \A i \in 1..Len(calls) :
        calls[i].e \in {"factory", "hook"} /\ calls[i].st # "ok" =>
            /\ i = Len(calls)
            /\ pc = "raised"
            /\ err.type = calls[i].st
            /\ err.type = Raised(calls[i])
            /\ logcfg = <<>>
            /\ result = VNone
            /\ \A j \in 1..Len(trace) : trace[j].e # "logging"

C14_Witness ==
    /\ pc = "raised"
    /\ err.type = "RuntimeError"
    /\ Cardinality(CallsOf("factory")) >= 3
    /\ CallsOf("hook") = {}
    /\ \E i \in CallsOf("factory") :
          /\ calls[i].st = "ok"
          /\ IsObjOf(calls[i].v, "F")
          /\ heap[calls[i].v.n].inits = <<>>

\* the keys that mark a node for a handler, the short alias included
DirectiveKeys == Directives \cup {KeyBang}

\* a literal has a mapping node that carries more than one directive key
RECURSIVE HasConflict(_)
HasConflict(lit) ==
    \/ /\ lit.lk = "dict"
       /\ Cardinality({k \in DirectiveKeys : Has(lit.items, k)}) > 1
    \/ \E j \in 1..Len(lit.items) : HasConflict(lit.items[j].v)

\* C15: process_config does not return normally when a source has a
\* mapping node with more than one directive key
C15_DirectiveConflict ==
    Done => \A i \in 1..Len(input) : ~HasConflict(input[i])

\* C16: in the configuration process_config returns no mapping carries
\* the key '!': every such node was replaced by what its factory made
C16_BangAlias ==
    Done => Carrying(heap, {result.n}, KeyBang) = {}

\* C17: a copy handler called on a node with keys beyond __copy__ returns
\* a new mapping made of some candidate's value at the path: every other
\* key of the node is in it with the node's value, every key of the target
\* the node does not give is in it with the target's value, there are no
\* further keys, and so its __factory__ is the node's when the node gives
\* one and the target's otherwise
C17_CopyOverrides ==
    [][CanHandle(KeyCopy) /\ calls' # calls
          /\ Len(heap[CopyNode].items) > 1
          /\ calls'[Len(calls')].st = "ok"
       => \E i \in 1..Len(handler.configs) :
             LET r == resolve_parts(heap, handler.configs[i],
                                    Split(CopyPath.s, "."), 1)
                 v == calls'[Len(calls')].v
                 P == heap[CopyNode].items
             IN /\ r.st = "ok"
                /\ IsDict(heap, r.v)
                /\ IsDict(heap', v)
                /\ v # r.v
                /\ v # VRef(CopyNode)
                /\ LET T == heap[r.v.n].items
                       R == heap'[v.n].items
                   IN /\ \A k \in Keys(P) \ {KeyCopy} :
                            /\ Has(R, k)
                            /\ Tree(heap', Get(R, k)) = Tree(heap, Get(P, k))
                      /\ \A k \in Keys(T) \ Keys(P) :
                            /\ Has(R, k)
                            /\ Tree(heap', Get(R, k)) = Tree(heap, Get(T, k))
                      /\ Keys(R) \ {KeyCopy}
                            = (Keys(T) \cup Keys(P)) \ {KeyCopy}
                      /\ Has(R, KeyFactory) =>
                            Get(R, KeyFactory) =
                               IF Has(P, KeyFactory) THEN Get(P, KeyFactory)
                               ELSE Get(T, KeyFactory)]_vars

C17_Witness ==
    /\ Done
    /\ \E i \in 1..Len(input) :
          /\ Has(input[i].items, KeyB)
          /\ Get(input[i].items, KeyB).lk = "dict"
          /\ Has(Get(input[i].items, KeyB).items, KeyCopy)
          /\ Has(Get(input[i].items, KeyB).items, KeyFactory)
    /\ IsObjOf(Get(Final, KeyA), "F")
    /\ IsObjOf(Get(Final, KeyB), "G")
    /\ Get(heap[Get(Final, KeyB).n].items, KeyX) = VInt(1)
    /\ Get(heap[Get(Final, KeyB).n].items, KeyY) = VInt(2)

\* the key, or the stringified index, of the j-th entry of a container
NameAt(c, j) ==
    IF heap[c].kind = "list" THEN IntToStr(j - 1) ELSE heap[c].items[j].k

\* C18: what a factory call returned is held by a container under the key
\* (for a list, the stringified index) the handler was called with; an
\* instance that takes attributes carries that key as its tag wherever it
\* is held, a dict made by a factory carries none, and both are in the
\* handler's list of components
C18_Tagging ==
    \A i \in CallsOf("factory") :
        calls[i].st = "ok" =>
            LET v == calls[i].v
            IN /\ v.t = "ref"
               /\ \E c \in 1..Len(heap) : \E j \in 1..Len(heap[c].items) :
                     heap[c].items[j].v = v /\ NameAt(c, j) = calls[i].name
               /\ \A c \in 1..Len(heap) : \A j \in 1..Len(heap[c].items) :
                     heap[c].items[j].v = v =>
                        heap[v.n].tag = IF IsKind(heap, v, "obj")
                                        THEN VStr(NameAt(c, j))
                                        ELSE VNone
               /\ \E n \in 1..Len(handler.components) :
                     handler.components[n] = v

C18_Witness ==
    /\ Done
    /\ \E i \in CallsOf("factory") :
          /\ calls[i].name = <<"0">>
          /\ IsObjOf(calls[i].v, "G")
          /\ heap[calls[i].v.n].tag = VStr(<<"0">>)
    /\ \E i \in CallsOf("factory") :
          /\ IsDict(heap, calls[i].v)
          /\ calls[i].name = KeyX
    /\ \E i \in CallsOf("factory") :
          /\ IsObjOf(calls[i].v, "F")
          /\ heap[calls[i].v.n].tag = VStr(KeyA)

\* C19: the call that initializes the store puts its extras, and nothing
\* else, into the store before it reads a source; in a store returned
\* with the sources folded in, every key of the extras has the value of the
\* last source that defines it, and the extra's value when none does
C19_ExtrasFirst ==
    /\ \A t \in Threads :
          tpc[t] \in {"mark", "environ", "files"} =>
             Tree(heap, Store).items = LitTree(LDict(tcall[t].extra)).items
    /\ \A t \in Threads :
          tret[t].st = "ok" /\ tret[t].built =>
             /\ input # <<>>
             /\ \A k \in Keys(input[1].items) :
                   /\ Has(tret[t].items, k)
                   /\ Tree(heap, Get(tret[t].items, k))
                         = LitTree(Get(input[LastDefining(k)].items, k))

C19_Witness ==
    \E t \in Threads :
        /\ tret[t].st = "ok"
        /\ tret[t].built
        /\ Len(input) = 3
        /\ input[1] = LDict(<<Item(KeyK, LInt(7))>>)
        /\ Has(input[2].items, KeyK)
        /\ Get(tret[t].items, KeyK) = VInt(2)

\* ------------------------------------------------------------------------
\* resolve_dotted_name on its own: a caller resolves one dotted name
\* ------------------------------------------------------------------------
ModuleNames == {ModP, ModBuiltins, <<"q">>, <<"p", ".", "q">>}

AttributeChains ==
    {<<"F">>, <<"G">>, <<"ns">>, <<"dict">>, <<"Z">>,
     <<"ns", ".", "F">>, <<"ns", ".", "Z">>, <<"F", ".", "Z">>}

\* the names a caller may pass: a module, a colon or a dot, attributes;
\* a name with no separator at all, a name with two colons
NamePool ==
    {m \o <<sep>> \o c :
        m \in ModuleNames, sep \in {":", "."}, c \in AttributeChains}
    \cup {ModBuiltins, ModP \o <<":", "ns", ":", "F">>}

resolve_dotted_name_call ==
    /\ pc = "resolve"
    /\ LET r == resolve_dotted_name(input[1].s)
       IN IF r.st = "ok"
          THEN /\ pc' = "done"
               /\ result' = VStr(<<r.attr>>)
               /\ err' = err
          ELSE /\ pc' = "raised"
               /\ result' = result
               /\ err' = [type |-> r.st, arg |-> <<>>]
    /\ UNCHANGED <<heap, at, configs, idx, config_final, config_org, handler,
                   stack, fin, logcfg, trace, calls, input, gvars>>

InitRDN ==
    /\ heap = <<Config>>
    /\ pc = "resolve"
    /\ at = "-"
    /\ configs = <<>>
    /\ idx = 0
    /\ config_final = VNone
    /\ config_org = VNone
    /\ handler = NoHandler
    /\ stack = <<>>
    /\ fin = 0
    /\ logcfg = <<>>
    /\ result = VNone
    /\ err = NoErr
    /\ trace = <<>>
    /\ calls = <<>>
    /\ input \in {<<LStr(name)>> : name \in NamePool}
    /\ environ = VNone
    /\ GInit

NextRDN == resolve_dotted_name_call

SpecRDN == InitRDN /\ [][NextRDN]_vars

\* the positions of a token in a name
Positions(name, tok) == {i \in 1..Len(name) : name[i] = tok}

Largest(S) == CHOOSE i \in S : \A j \in S : j <= i

NotDot(tok) == tok # "."

\* the namespace of a module that can be imported
Imported(module) == {m[2] : m \in {n \in Modules : n[1] = module}}

\* the objects a chain of attribute names leads to from an owner
Leads(owner, names) ==
    {last \in {a[3] : a \in Attributes} \cup {owner} :
        \E path \in [0..Len(names) -> {a[3] : a \in Attributes} \cup {owner}] :
            /\ path[0] = owner
            /\ path[Len(names)] = last
            /\ \A i \in 1..Len(names) :
                  <<path[i - 1], names[i], path[i]>> \in Attributes}

\* C20: a name with one colon is cut at the colon, a name with dots and no
\* colon at its last dot; the left part names the module, the right part
\* the attributes, dot by dot in the colon form and a single one in the
\* dot form. The call returns what the attributes lead to from the
\* module, raises ImportError when there is no such module and
\* AttributeError when an attribute is missing
C20_ResolveDottedName ==
    pc \in {"done", "raised"} =>
        LET name == input[1].s
            colons == Positions(name, ":")
            dots == Positions(name, ".")
            cut == IF colons # {} THEN Largest(colons) ELSE Largest(dots)
            module == SubSeq(name, 1, cut - 1)
            right == SubSeq(name, cut + 1, Len(name))
            names == IF colons # {}
                     THEN [i \in 1..Len(SelectSeq(right, NotDot)) |->
                              <<SelectSeq(right, NotDot)[i]>>]
                     ELSE <<right>>
        IN Cardinality(colons) = 1 \/ (colons = {} /\ dots # {}) =>
              IF Imported(module) = {}
              THEN pc = "raised" /\ err.type = "ImportError"
              ELSE LET found == UNION {Leads(o, names) : o \in Imported(module)}
                   IN IF found = {}
                      THEN pc = "raised" /\ err.type = "AttributeError"
                      ELSE pc = "done" /\ result.s[1] \in found
                              /\ Cardinality(found) = 1

C20_Witness ==
    /\ pc = "done"
    /\ input[1].s = FactoryNsF
    /\ result = VStr(<<"F">>)

\* the number that tells the calls of the walk that has just ended apart
WalkEnded == IF handler.key = KeyFactory THEN Len(trace) - 1 ELSE Len(trace)

C22_CopiesResolved ==
    /\ pc \in {"merge", "python", "component", "logging", "done"}
    /\ config_final # VNone
    /\ \A i \in 1..Len(input) : ~Has(input[i].items, KeyCopy)
    => Carrying(heap, {config_final.n}, KeyCopy) = {}

RootCalls == {i \in 1..Len(calls) : /\ calls[i].p = config_final.n
                                    /\ calls[i].e # "hook"
                                    /\ calls[i].st = "ok"}

C24_RootReplaced ==
    Done /\ RootCalls # {} => result = calls[Largest(RootCalls)].v

\* C25: a get_config call made by a thread whose earlier call returned
\* the store, so that the store is initialized, never owns the lock and
\* never stands before the lock while another thread owns it
C25_LockFreeReads ==
    \A t \in Threads :
       tret[t].st = "ok" /\ tcall[t].fn = "get_config" /\ tpc[t] # "idle" =>
          /\ lock.owner # t
          /\ ~(tpc[t] = "acquire" /\ lock.owner # 0)

\* C26: of the initialize_config calls of the threads at most one
\* returns normally
C26_OneInitializer ==
    Cardinality({t \in Threads : /\ tret[t].fn = "initialize_config"
                                 /\ tret[t].st = "ok"}) <= 1

\* C27: a component whose constructor called get_config during the
\* initialization holds a copy of the store with the keys of every source
\* of that initialization: the extras and the files read
BadDummies == {o \in 1..Len(heap) : heap[o].kind = "obj" /\ heap[o].cls = <<"B">>}

C27_ReentrantGetConfig ==
    \A o \in BadDummies : \A i \in 1..Len(input) :
       Keys(input[i].items)
          \subseteq Keys(heap[Get(heap[o].items, KeyCfg).n].items)

\* the steps the walker takes on a value: one to pass over a scalar; one
\* to call itself, one to return and the steps on the elements for a list;
\* one more, the test for the handler's key, for a dict
RECURSIVE Work(_, _), WorkFrom(_, _, _)
Work(h, v) ==
    IF IsDict(h, v) THEN 3 + WorkFrom(h, h[v.n].items, 1)
    ELSE IF IsList(h, v) THEN 2 + WorkFrom(h, h[v.n].items, 1)
    ELSE 1

WorkFrom(h, items, i) ==
    IF i > Len(items) THEN 0
    ELSE Work(h, items[i].v) + WorkFrom(h, items, i + 1)

\* the steps an activation of the walker has before it: the test that is
\* due when the dict it called itself on comes back, the elements after
\* the current one, the return
Left(f) ==
    IF f.st = "post"
    THEN (IF IsDict(heap, f.val) THEN 1 ELSE 0)
            + WorkFrom(heap, Elements(f), f.i + 1) + 1
    ELSE WorkFrom(heap, Elements(f), f.i) + 1

RECURSIVE LeftFrom(_)
LeftFrom(i) == IF i > Len(stack) THEN 0 ELSE Left(stack[i]) + LeftFrom(i + 1)

WalkRank == LeftFrom(1)

InCopyWalk == pc \in {"copy1", "copy2"} /\ at = "walk"

\* the handler calls made so far in the walk that is running
CallsInWalk == {i \in 1..Len(calls) : calls[i].walk = Len(trace)}

C29_SourcesUnchanged ==
    pc \in {"done", "raised"} =>
       \A i \in 1..Len(configs) : Tree(heap, configs[i]) = LitTree(input[i])

\* C30: while the store is initialized, a call that takes the lock, tests
\* the flag or returns changes nothing: the store and everything below it
\* stay as they are, so the extras are not put in, no file is read, no
\* phase starts and no handler, factory or hook is called; the call that
\* finds the flag set goes straight to its return, and what a call
\* returns is the store as it is
C30_InitializedFrame ==
    [][\A t \in Threads :
          /\ initialized
          /\ tpc[t] \in {"acquire", "locked", "return"}
          /\ tpc'[t] # tpc[t]
          => /\ heap' = heap
             /\ reads' = reads
             /\ syspath' = syspath
             /\ calls' = calls
             /\ trace' = trace
             /\ pc' = pc
             /\ tpc[t] = "locked" => tpc'[t] = "return"
             /\ tpc'[t] = "idle" => /\ tret'[t].st = "ok"
                                    /\ tret'[t].v = Store
                                    /\ tret'[t].items = heap[1].items]_vars

\* a call with extras has returned a store that lacks the extras' key
C30_Witness ==
    \E t \in Threads :
       /\ tpc[t] = "idle"
       /\ tret[t].st = "ok"
       /\ tret[t].fn = "get_config"
       /\ tcall[t].extra # <<>>
       /\ \A i \in 1..Len(tcall[t].extra) :
             ~Has(tret[t].items, tcall[t].extra[i].k)

====
